---- MODULE Spec2Model ----
(***************************************************************************)
(* PowerBIDataPreprocessor (src/Powerbi_preprocessing.py) as a state       *)
(* machine: load_data, the four cleaners, create_master_dataset,           *)
(* create_aggregated_tables, validate_data_quality and export_data, run in *)
(* the order of run_pipeline, once or several times.                       *)
(*                                                                         *)
(* Data representation                                                     *)
(*   cell    NaN (a missing value: NaN, NaT, <NA>) or <<v>>                *)
(*   string  a sequence of tokens; the token " " is a whitespace           *)
(*           character, any other token a run of non-blank characters      *)
(*   date    raw text dd/mm/yyyy is the triple <<d, m, y>> of its fields;  *)
(*           a parsed timestamp is the same triple, known to be a date     *)
(*   money   integers: 'Cost per Box' and Revenue in cents, Profit in      *)
(*           1/100 cent (Revenue * 0.30 = Revenue * 30 / 100)              *)
(*   table   [cols |-> column names, rows |-> sequence of rows], a row a   *)
(*           function from column name to cell                            *)
(*   groupby result: pandas sorts groups by key, so the table is determined*)
(*           by its set of group rows; it is kept as that set              *)
(***************************************************************************)
EXTENDS Integers, Sequences, FiniteSets, TLC

(* files              the four CSV files load_data reads (lines 22-25)     *)
(* self               the fields salesperson_df, shipment_df, country_df,  *)
(*                    product_df (lines 14-17), each a reference or None   *)
(* heap               the DataFrame objects, by reference                  *)
(* pc                 the stage of run_pipeline that runs next, "done"     *)
(*                    when it returned, "aborted" when it raised           *)
(* err                the exception that ended the run and its stage       *)
(* master_df,         run_pipeline's locals (lines 298 and 301)            *)
(* aggregated_tables                                                       *)
(* report             what validate_data_quality printed                   *)
(* exported           the files export_data wrote, one entry per run       *)
(* returned           what run_pipeline returned, one entry per run        *)
VARIABLES files, self, heap, pc, err, master_df, aggregated_tables,
          report, exported, returned

vars == <<files, self, heap, pc, err, master_df, aggregated_tables,
          report, exported, returned>>

----------------------------------------------------------------------------
(* Bounds of the model *)
MaxShipRows == 2
MaxDimRows == 2
MaxRuns == 2

(* Constants of the program *)
LateThreshold == 15
MarginPct == 30

----------------------------------------------------------------------------
(* Cells and sequences *)
NaN == << >>

None == 0

isnull(c) == c = NaN

RECURSIVE FlattenSeq(_)
FlattenSeq(ss) == IF ss = << >> THEN << >> ELSE Head(ss) \o FlattenSeq(Tail(ss))

RECURSIVE SumSeq(_)
SumSeq(s) == IF s = << >> THEN 0 ELSE Head(s) + SumSeq(Tail(s))

(* Series.sum(): missing values are skipped, an all-missing sum is 0 *)
ColSum(rows, col) ==
    SumSeq([i \in 1..Len(rows) |-> IF isnull(rows[i][col]) THEN 0 ELSE rows[i][col][1]])

(* Series.count(): the number of non-missing values *)
ColCount(rows, col) == Cardinality({i \in 1..Len(rows) : ~isnull(rows[i][col])})

(* df[col] = value, in one row: the column is added or replaced *)
SetCol(r, col, value) ==
    [c \in (DOMAIN r) \cup {col} |-> IF c = col THEN value ELSE r[c]]

----------------------------------------------------------------------------
(* Series.str.strip() *)
RECURSIVE lstrip(_)
lstrip(s) == IF s # << >> /\ Head(s) = " " THEN lstrip(Tail(s)) ELSE s

RECURSIVE rstrip(_)
rstrip(s) == IF s # << >> /\ s[Len(s)] = " " THEN rstrip(SubSeq(s, 1, Len(s) - 1)) ELSE s

strip(s) == rstrip(lstrip(s))

str_strip(c) == IF isnull(c) THEN NaN ELSE <<strip(c[1])>>

(* read_csv gives an all-empty column of a table with rows the dtype       *)
(* float64, and Series.str raises AttributeError on it; a table with no    *)
(* rows has object columns.                                                *)
HasStrAccessor(tbl, col) ==
    tbl.rows = << >> \/ \E i \in 1..Len(tbl.rows) : ~isnull(tbl.rows[i][col])

----------------------------------------------------------------------------
(* Dates: pd.to_datetime(format='%d/%m/%Y') and the .dt accessors *)
IsLeap(y) == (y % 4 = 0 /\ y % 100 # 0) \/ y % 400 = 0

DaysInMonth(m, y) ==
    IF m = 2 THEN (IF IsLeap(y) THEN 29 ELSE 28)
    ELSE IF m \in {4, 6, 9, 11} THEN 30 ELSE 31

(* does the text d/m/y name a calendar date *)
Parses(t) == /\ t[2] \in 1..12
             /\ t[1] >= 1
             /\ t[1] <= DaysInMonth(t[2], t[3])

RECURSIVE DaysBeforeMonth(_, _)
DaysBeforeMonth(m, y) ==
    IF m = 1 THEN 0 ELSE DaysBeforeMonth(m - 1, y) + DaysInMonth(m - 1, y)

DayOfYear(t) == DaysBeforeMonth(t[2], t[3]) + t[1]

(* the proleptic Gregorian ordinal of a date, 1 for 01/01/0001 *)
Ordinal(t) ==
    LET y == t[3] - 1
    IN  365 * y + (y \div 4) - (y \div 100) + (y \div 400) + DayOfYear(t)

(* errors='raise' (the default): a missing cell gives NaT, a date gives    *)
(* the timestamp; a text that is no date raises, see DateRaises            *)
to_datetime(c) == IF isnull(c) THEN NaN ELSE <<c[1]>>

DateRaises(rows, col) ==
    \E i \in 1..Len(rows) : ~isnull(rows[i][col]) /\ ~Parses(rows[i][col][1])

(* errors='coerce': a text that is no date gives NaT *)
to_datetime_coerce(c) ==
    IF isnull(c) THEN NaN ELSE IF Parses(c[1]) THEN <<c[1]>> ELSE NaN

MonthAbbr == <<"Jan", "Feb", "Mar", "Apr", "May", "Jun",
               "Jul", "Aug", "Sep", "Oct", "Nov", "Dec">>

DayNames == <<"Monday", "Tuesday", "Wednesday", "Thursday", "Friday",
              "Saturday", "Sunday">>

(* 1 = Monday .. 7 = Sunday *)
IsoWeekday(t) == ((Ordinal(t) + 6) % 7) + 1

WeeksInYear(y) ==
    LET jan1 == IsoWeekday(<<1, 1, y>>)
    IN  IF jan1 = 4 \/ (jan1 = 3 /\ IsLeap(y)) THEN 53 ELSE 52

IsoWeek(t) ==
    LET w == (DayOfYear(t) - IsoWeekday(t) + 10) \div 7
    IN  IF w < 1 THEN WeeksInYear(t[3] - 1)
        ELSE IF w > WeeksInYear(t[3]) THEN 1 ELSE w

dt_year(c) == IF isnull(c) THEN NaN ELSE <<c[1][3]>>
dt_month(c) == IF isnull(c) THEN NaN ELSE <<c[1][2]>>
dt_month_name(c) == IF isnull(c) THEN NaN ELSE <<MonthAbbr[c[1][2]]>>
dt_quarter(c) == IF isnull(c) THEN NaN ELSE <<((c[1][2] - 1) \div 3) + 1>>
dt_day_name(c) == IF isnull(c) THEN NaN ELSE <<DayNames[IsoWeekday(c[1])]>>
dt_week(c) == IF isnull(c) THEN NaN ELSE <<IsoWeek(c[1])>>

(* (delivered - shipped).dt.days: missing when either side is missing *)
days_between(delivered, shipped) ==
    IF isnull(delivered) \/ isnull(shipped) THEN NaN
    ELSE <<Ordinal(delivered[1]) - Ordinal(shipped[1])>>

fillna(c, v) == IF isnull(c) THEN <<v>> ELSE c

----------------------------------------------------------------------------
(* The four cleaners.  Each works on df = self.<table>.copy(): the result  *)
(* is a new table and the table read is left as it was.  <name>_raises is  *)
(* the exception the cleaner ends with ("" when it returns).               *)

(* df[col].str.strip() on a column that may be absent or not of strings *)
StrColRaises(tbl, col) ==
    IF col \notin tbl.cols THEN "KeyError"
    ELSE IF ~HasStrAccessor(tbl, col) THEN "AttributeError" ELSE ""

RECURSIVE FirstRaise(_)
FirstRaise(es) ==
    IF es = << >> THEN "" ELSE IF Head(es) # "" THEN Head(es) ELSE FirstRaise(Tail(es))

(* dropna(how='all') *)
dropna_all(rows) == SelectSeq(rows, LAMBDA r : \E c \in DOMAIN r : ~isnull(r[c]))

clean_salesperson_raises(tbl) ==
    FirstRaise(<<StrColRaises(tbl, "Sales Person"),
                 StrColRaises(tbl, "Team"),
                 IF "Picture" \notin tbl.cols THEN "KeyError" ELSE "">>)

clean_salesperson_row(r) ==
    [r EXCEPT !["Sales Person"] = str_strip(@),
              !["Team"] = str_strip(@),
              !["Picture"] = fillna(@, << >>)]

clean_salesperson_data(tbl) ==
    LET kept == dropna_all(tbl.rows)
    IN  [cols |-> tbl.cols,
         rows |-> [i \in 1..Len(kept) |-> clean_salesperson_row(kept[i])]]

ShipmentDerived ==
    {"Year", "Month", "Month Name", "Quarter", "Weekday", "Week",
     "Delivery Time", "Is Late", "Is Active", "Is Completed", "Is Returned"}

clean_shipment_raises(tbl) ==
    FirstRaise(<<IF "Date" \notin tbl.cols THEN "KeyError"
                 ELSE IF DateRaises(tbl.rows, "Date") THEN "ValueError" ELSE "",
                 IF "Delivered On" \notin tbl.cols THEN "KeyError" ELSE "",
                 StrColRaises(tbl, "Sales Person"),
                 StrColRaises(tbl, "Geography"),
                 StrColRaises(tbl, "Product"),
                 StrColRaises(tbl, "Status")>>)

(* as delivery_time, but a delivery before the ship date counts as 0 days *)
delivery_time_clamped(r) ==
    LET d == fillna(days_between(r["Delivered On"], r["Date"]), 0)
    IN  IF d[1] < 0 THEN <<0>> ELSE d

delivery_time(r) == fillna(days_between(r["Delivered On"], r["Date"]), 0)

(* as is_late, but late from the threshold on *)
is_late_from_threshold(r) == <<r["Delivery Time"][1] >= LateThreshold>>

is_late(r) == <<r["Delivery Time"][1] > LateThreshold>>

status_is(r, name) == <<r["Status"] = <<(<<name>>)>> >>

(* lines 53-60: the dates parsed, the text columns stripped *)
parse_and_strip(r) ==
    [r EXCEPT !["Date"] = to_datetime(@),
              !["Delivered On"] = to_datetime_coerce(@),
              !["Sales Person"] = str_strip(@),
              !["Geography"] = str_strip(@),
              !["Product"] = str_strip(@),
              !["Status"] = str_strip(@)]

(* lines 63-68: the time features of the ship date *)
time_features(r) ==
    [c \in {"Year", "Month", "Month Name", "Quarter", "Weekday", "Week"} |->
        CASE c = "Year" -> dt_year(r["Date"])
          [] c = "Month" -> dt_month(r["Date"])
          [] c = "Month Name" -> dt_month_name(r["Date"])
          [] c = "Quarter" -> dt_quarter(r["Date"])
          [] c = "Weekday" -> dt_day_name(r["Date"])
          [] c = "Week" -> dt_week(r["Date"])]

(* lines 78-80: one flag per status name *)
status_flags(r) ==
    [c \in {"Is Active", "Is Completed", "Is Returned"} |->
        CASE c = "Is Active" -> status_is(r, "Active")
          [] c = "Is Completed" -> status_is(r, "Completed")
          [] c = "Is Returned" -> status_is(r, "Returned")]

clean_shipment_row(r) ==
    LET a == parse_and_strip(r)
        b == time_features(a) @@ a
        c == SetCol(b, "Delivery Time", delivery_time(b))
        d == SetCol(c, "Is Late", is_late(c))
    IN  status_flags(d) @@ d

clean_shipment_data(tbl) ==
    [cols |-> tbl.cols \cup ShipmentDerived,
     rows |-> [i \in 1..Len(tbl.rows) |-> clean_shipment_row(tbl.rows[i])]]

clean_country_raises(tbl) ==
    FirstRaise(<<StrColRaises(tbl, "Geography"), StrColRaises(tbl, "Region")>>)

clean_country_row(r) ==
    [r EXCEPT !["Geography"] = str_strip(@), !["Region"] = str_strip(@)]

clean_country_data(tbl) ==
    [cols |-> tbl.cols,
     rows |-> [i \in 1..Len(tbl.rows) |-> clean_country_row(tbl.rows[i])]]

(* pd.to_numeric(errors='coerce'): the text of a number gives the number,  *)
(* any other text NaN.  A raw cost is [num |-> is it a number, n |-> cents]*)
to_numeric(c) == IF isnull(c) THEN NaN ELSE IF c[1].num THEN <<c[1].n>> ELSE NaN

clean_product_raises(tbl) ==
    FirstRaise(<<StrColRaises(tbl, "Product"),
                 StrColRaises(tbl, "Category"),
                 IF "Cost per Box" \notin tbl.cols THEN "KeyError" ELSE "">>)

clean_product_row(r) ==
    [r EXCEPT !["Product"] = str_strip(@),
              !["Category"] = str_strip(@),
              !["Cost per Box"] = to_numeric(@)]

clean_product_data(tbl) ==
    [cols |-> tbl.cols,
     rows |-> [i \in 1..Len(tbl.rows) |-> clean_product_row(tbl.rows[i])]]

----------------------------------------------------------------------------
(* create_master_dataset *)

(* DataFrame.merge(right, on=key, how='left'): every left row, in order,   *)
(* once per right row with an equal key (missing keys match each other),   *)
(* or once with the right columns missing when no right row matches.       *)
merge(left, right, key) ==
    LET allcols == left.cols \cup right.cols
        Joined(l, r) == [c \in allcols |-> IF c \in left.cols THEN l[c] ELSE r[c]]
        Unmatched(l) == [c \in allcols |-> IF c \in left.cols THEN l[c] ELSE NaN]
        Matches(l) == SelectSeq(right.rows, LAMBDA r : r[key] = l[key])
        RowsFor(l) ==
            LET m == Matches(l)
            IN  IF m = << >> THEN <<Unmatched(l)>>
                ELSE [j \in 1..Len(m) |-> Joined(l, m[j])]
    IN  [cols |-> allcols,
         rows |-> FlattenSeq([i \in 1..Len(left.rows) |-> RowsFor(left.rows[i])])]

(* as revenue, but a missing cost counts as 0 *)
revenue_cost_filled(r) ==
    IF isnull(r["Sales"]) THEN NaN
    ELSE IF isnull(r["Cost per Box"]) THEN <<0>>
    ELSE <<r["Sales"][1] * r["Cost per Box"][1]>>

revenue(r) ==
    IF isnull(r["Sales"]) \/ isnull(r["Cost per Box"]) THEN NaN
    ELSE <<r["Sales"][1] * r["Cost per Box"][1]>>

profit(r) == IF isnull(r["Revenue"]) THEN NaN ELSE <<r["Revenue"][1] * MarginPct>>

create_master_raises(shipment, salesperson, country, product) ==
    IF "Sales Person" \notin shipment.cols \/ "Sales Person" \notin salesperson.cols
        THEN "KeyError"
    ELSE IF "Geography" \notin shipment.cols \cup salesperson.cols
                \/ "Geography" \notin country.cols
        THEN "KeyError"
    ELSE IF "Product" \notin shipment.cols \cup salesperson.cols \cup country.cols
                \/ "Product" \notin product.cols
        THEN "KeyError"
    ELSE IF ~({"Sales", "Cost per Box"} \subseteq
                shipment.cols \cup salesperson.cols \cup country.cols \cup product.cols)
        THEN "KeyError"
    ELSE ""

with_revenue_and_profit(r) ==
    LET a == SetCol(r, "Revenue", revenue(r))
    IN  SetCol(a, "Profit", profit(a))

create_master_dataset(shipment, salesperson, country, product) ==
    LET m == merge(merge(merge(shipment, salesperson, "Sales Person"),
                         country, "Geography"),
                   product, "Product")
    IN  [cols |-> m.cols \cup {"Revenue", "Profit"},
         rows |-> [i \in 1..Len(m.rows) |-> with_revenue_and_profit(m.rows[i])]]

----------------------------------------------------------------------------
(* create_aggregated_tables *)

(* groupby(keys) with the default dropna=True: one group per combination   *)
(* of key values, over the rows in which every key is present.  A group    *)
(* row holds its key columns as cells and its measures as numbers.         *)
(* as groupby, with dropna=False: missing key values make groups too *)
groupby_keep_missing(rows, keys) ==
    {[k \in keys |-> rows[i][k]] : i \in 1..Len(rows)}

groupby(rows, keys) ==
    {[k \in keys |-> rows[i][k]] :
        i \in {j \in 1..Len(rows) : \A k \in keys : ~isnull(rows[j][k])}}

GroupRows(rows, g) == SelectSeq(rows, LAMBDA r : \A k \in DOMAIN g : r[k] = g[k])

(* 'mean' of a column, as the fraction <<sum, count>> of its present values *)
ColMean(rows, col) == <<ColSum(rows, col), ColCount(rows, col)>>

(* 'sum' of a boolean column *)
ColTrue(rows, col) == Cardinality({i \in 1..Len(rows) : rows[i][col] = <<TRUE>>})

monthly_agg(rows) ==
    {LET gr == GroupRows(rows, g)
     IN  g @@ [c \in {"Total Sales", "Total Revenue", "Total Profit",
                               "Shipment Count", "Avg Delivery Time"} |->
            CASE c = "Total Sales" -> ColSum(gr, "Sales")
              [] c = "Total Revenue" -> ColSum(gr, "Revenue")
              [] c = "Total Profit" -> ColSum(gr, "Profit")
              [] c = "Shipment Count" -> ColCount(gr, "Shipment ID")
              [] c = "Avg Delivery Time" -> ColMean(gr, "Delivery Time")]
     : g \in groupby(rows, {"Year", "Month", "Month Name"})}

salesperson_agg(rows) ==
    {LET gr == GroupRows(rows, g)
     IN  g @@ [c \in {"Total Sales", "Total Revenue", "Shipment Count",
                               "Avg Delivery Time", "Completed Count"} |->
            CASE c = "Total Sales" -> ColSum(gr, "Sales")
              [] c = "Total Revenue" -> ColSum(gr, "Revenue")
              [] c = "Shipment Count" -> ColCount(gr, "Shipment ID")
              [] c = "Avg Delivery Time" -> ColMean(gr, "Delivery Time")
              [] c = "Completed Count" -> ColTrue(gr, "Is Completed")]
     : g \in groupby(rows, {"Sales Person", "Team"})}

(* the geography and product aggregates: the same four measures *)
dimension_agg(rows, keys) ==
    {LET gr == GroupRows(rows, g)
     IN  g @@ [c \in {"Total Sales", "Total Revenue", "Shipment Count",
                               "Avg Delivery Time"} |->
            CASE c = "Total Sales" -> ColSum(gr, "Sales")
              [] c = "Total Revenue" -> ColSum(gr, "Revenue")
              [] c = "Shipment Count" -> ColCount(gr, "Shipment ID")
              [] c = "Avg Delivery Time" -> ColMean(gr, "Delivery Time")]
     : g \in groupby(rows, keys)}

geography_agg(rows) == dimension_agg(rows, {"Geography", "Region"})

product_agg(rows) == dimension_agg(rows, {"Product", "Category"})

status_agg(rows) ==
    {LET gr == GroupRows(rows, g)
     IN  g @@ [c \in {"Shipment Count", "Total Sales", "Total Revenue"} |->
            CASE c = "Shipment Count" -> ColCount(gr, "Shipment ID")
              [] c = "Total Sales" -> ColSum(gr, "Sales")
              [] c = "Total Revenue" -> ColSum(gr, "Revenue")]
     : g \in groupby(rows, {"Status"})}

AggregatedColumns ==
    {"Year", "Month", "Month Name", "Sales", "Revenue", "Profit", "Shipment ID",
     "Delivery Time", "Sales Person", "Team", "Is Completed", "Geography",
     "Region", "Product", "Category", "Status"}

create_aggregated_raises(master) ==
    IF AggregatedColumns \subseteq master.cols THEN "" ELSE "KeyError"

create_aggregated_tables(master) ==
    [monthly |-> monthly_agg(master.rows),
     salesperson |-> salesperson_agg(master.rows),
     geography |-> geography_agg(master.rows),
     product |-> product_agg(master.rows),
     status |-> status_agg(master.rows)]

----------------------------------------------------------------------------
(* validate_data_quality: the report it prints; it raises nothing once the *)
(* aggregation has found every column it reads.                            *)

Present(rows, col) == {rows[i][col][1] : i \in {j \in 1..Len(rows) : ~isnull(rows[j][col])}}

(* df.isnull().sum(), kept where it is positive *)
missing_values(df) ==
    {<<c, Len(df.rows) - ColCount(df.rows, c)>> :
        c \in {d \in df.cols : ColCount(df.rows, d) < Len(df.rows)}}

(* df.duplicated(subset=['Shipment ID']).sum(): rows whose id occurred in  *)
(* an earlier row (missing ids are equal to each other)                    *)
duplicates(rows) ==
    Cardinality({i \in 1..Len(rows) :
        \E j \in 1..(i - 1) : rows[j]["Shipment ID"] = rows[i]["Shipment ID"]})

MinOf(S) == IF S = {} THEN NaN ELSE <<CHOOSE x \in S : \A y \in S : x <= y>>
MaxOf(S) == IF S = {} THEN NaN ELSE <<CHOOSE x \in S : \A y \in S : x >= y>>

DateMin(S) ==
    IF S = {} THEN NaN ELSE <<CHOOSE x \in S : \A y \in S : Ordinal(x) <= Ordinal(y)>>
DateMax(S) ==
    IF S = {} THEN NaN ELSE <<CHOOSE x \in S : \A y \in S : Ordinal(x) >= Ordinal(y)>>

(* f"{count/len(df)*100:.2f}" in 1/100 percent, rounded to the nearest *)
percent(count, total) == (2 * 10000 * count + total) \div (2 * total)

(* df['Status'].value_counts(): missing values are not counted (dropna)    *)
value_counts(rows, col) ==
    {<<v, Cardinality({i \in 1..Len(rows) : rows[i][col] = <<v>>})>> : v \in Present(rows, col)}

status_distribution(df) ==
    {[status |-> vc[1], count |-> vc[2], pct |-> percent(vc[2], Len(df.rows))] :
        vc \in value_counts(df.rows, "Status")}

validate_data_quality(df) ==
    [total_records |-> Len(df.rows),
     total_columns |-> Cardinality(df.cols),
     missing |-> {<<m[1], m[2], percent(m[2], Len(df.rows))>> : m \in missing_values(df)},
     duplicates |-> duplicates(df.rows),
     date_range |-> <<DateMin(Present(df.rows, "Date")), DateMax(Present(df.rows, "Date"))>>,
     sales_range |-> <<MinOf(Present(df.rows, "Sales")), MaxOf(Present(df.rows, "Sales"))>>,
     avg_sales |-> ColMean(df.rows, "Sales"),
     denominator |-> Len(df.rows),
     status_dist |-> status_distribution(df)]

----------------------------------------------------------------------------
(* export_data: DataFrame.to_csv(index=False).  A missing value is written *)
(* as the empty text, and so is the empty string.                          *)
TextColumns ==
    {"Sales Person", "Team", "Picture", "Geography", "Region", "Product",
     "Category", "Status"}

csv_text(col, c) ==
    IF isnull(c) THEN << >> ELSE IF col \in TextColumns THEN c[1] ELSE <<c[1]>>

to_csv(df) ==
    [header |-> df.cols,
     lines |-> [i \in 1..Len(df.rows) |->
                    [c \in df.cols |-> csv_text(c, df.rows[i][c])]]]

(* an aggregate has no missing value: its rows are written as they are *)
agg_to_csv(agg) == agg

export_data(master, salesperson, shipment, country, product, aggs) ==
    [master_dataset |-> to_csv(master),
     salesperson_cleaned |-> to_csv(salesperson),
     shipment_cleaned |-> to_csv(shipment),
     country_cleaned |-> to_csv(country),
     product_cleaned |-> to_csv(product),
     monthly_aggregated |-> agg_to_csv(aggs.monthly),
     salesperson_aggregated |-> agg_to_csv(aggs.salesperson),
     geography_aggregated |-> agg_to_csv(aggs.geography),
     product_aggregated |-> agg_to_csv(aggs.product),
     status_aggregated |-> agg_to_csv(aggs.status)]

----------------------------------------------------------------------------
(* The object state.  heap is the sequence of the DataFrame objects made   *)
(* so far, a reference an index into it; self holds the four fields.       *)

Fields == {"salesperson_df", "shipment_df", "country_df", "product_df"}

(* __init__ *)
init_self == [f \in Fields |-> None]

(* df = self.<field>.copy(): a new object with the contents of the old *)
(* df = self.<field>, without the copy: the same object under a new name *)
copy_alias(h, ref) == [heap |-> h, ref |-> ref]

copy(h, ref) == [heap |-> Append(h, h[ref]), ref |-> Len(h) + 1]

Raise(e, stage) ==
    /\ pc' = "aborted"
    /\ err' = [type |-> e, stage |-> stage]

(* load_data: read_csv of the four files, each into a new object.  The     *)
(* objects of an earlier run are referenced by nothing from here on (the   *)
(* fields are assigned anew, run_pipeline's locals are gone, the caller    *)
(* holds what `returned` records): they are dropped from the heap.         *)
load_data ==
    /\ pc = "load"
    /\ heap' = <<files.salesperson, files.shipment, files.country, files.product>>
    /\ self' = [salesperson_df |-> 1, shipment_df |-> 2, country_df |-> 3, product_df |-> 4]
    /\ pc' = "clean_salesperson"
    /\ UNCHANGED <<files, err, master_df, aggregated_tables, report, exported, returned>>

(* one cleaner: copy the field's table, clean the copy, store it in the field *)
(* (raises: the exception it ends with, cleaned: the table it makes)       *)
Cleaner(stage, field, raises, cleaned, next) ==
    /\ pc = stage
    /\ LET df == copy(heap, self[field])
       IN  IF raises # ""
           THEN /\ Raise(raises, stage)
                /\ heap' = df.heap
                /\ UNCHANGED self
           ELSE /\ heap' = [df.heap EXCEPT ![df.ref] = cleaned]
                /\ self' = [self EXCEPT ![field] = df.ref]
                /\ pc' = next
                /\ UNCHANGED err
    /\ UNCHANGED <<files, master_df, aggregated_tables, report, exported, returned>>

clean_salesperson ==
    Cleaner("clean_salesperson", "salesperson_df", clean_salesperson_raises(heap[self.salesperson_df]),
            clean_salesperson_data(heap[self.salesperson_df]), "clean_shipment")

clean_shipment ==
    Cleaner("clean_shipment", "shipment_df", clean_shipment_raises(heap[self.shipment_df]),
            clean_shipment_data(heap[self.shipment_df]), "clean_country")

clean_country ==
    Cleaner("clean_country", "country_df", clean_country_raises(heap[self.country_df]),
            clean_country_data(heap[self.country_df]), "clean_product")

clean_product ==
    Cleaner("clean_product", "product_df", clean_product_raises(heap[self.product_df]),
            clean_product_data(heap[self.product_df]), "create_master")

create_master ==
    /\ pc = "create_master"
    /\ LET sh == heap[self.shipment_df]
           sp == heap[self.salesperson_df]
           co == heap[self.country_df]
           pr == heap[self.product_df]
           e  == create_master_raises(sh, sp, co, pr)
       IN  IF e # ""
           THEN /\ Raise(e, "create_master")
                /\ UNCHANGED <<heap, master_df>>
           ELSE /\ heap' = Append(heap, create_master_dataset(sh, sp, co, pr))
                /\ master_df' = Len(heap) + 1
                /\ pc' = "create_aggregated"
                /\ UNCHANGED err
    /\ UNCHANGED <<files, self, aggregated_tables, report, exported, returned>>

create_aggregated ==
    /\ pc = "create_aggregated"
    /\ IF create_aggregated_raises(heap[master_df]) # ""
       THEN /\ Raise(create_aggregated_raises(heap[master_df]), "create_aggregated")
            /\ UNCHANGED aggregated_tables
       ELSE /\ aggregated_tables' = <<create_aggregated_tables(heap[master_df])>>
            /\ pc' = "validate"
            /\ UNCHANGED err
    /\ UNCHANGED <<files, self, heap, master_df, report, exported, returned>>

validate ==
    /\ pc = "validate"
    /\ report' = <<validate_data_quality(heap[master_df])>>
    /\ pc' = "export"
    /\ UNCHANGED <<files, self, heap, err, master_df, aggregated_tables, exported, returned>>

(* export_data, then run_pipeline returns master_df and aggregated_tables. *)
(* exported keeps what every run wrote (the files on disk are the last).   *)
export ==
    /\ pc = "export"
    /\ exported' = Append(exported,
          export_data(heap[master_df], heap[self.salesperson_df],
                      heap[self.shipment_df], heap[self.country_df],
                      heap[self.product_df], aggregated_tables[1]))
    /\ returned' = Append(returned,
          [master_df |-> heap[master_df], aggregated_tables |-> aggregated_tables[1]])
    /\ pc' = "done"
    /\ UNCHANGED <<files, self, heap, err, master_df, aggregated_tables, report>>

(* run_pipeline is called again with the same four paths, on the same      *)
(* object or on a new PowerBIDataPreprocessor()                            *)
run_again ==
    /\ pc = "done"
    /\ Len(returned) < MaxRuns
    /\ \E fresh \in BOOLEAN : self' = IF fresh THEN init_self ELSE self
    /\ pc' = "load"
    /\ master_df' = None
    /\ aggregated_tables' = << >>
    /\ report' = << >>
    /\ UNCHANGED <<files, heap, err, exported, returned>>

Next ==
    \/ load_data
    \/ clean_salesperson
    \/ clean_shipment
    \/ clean_country
    \/ clean_product
    \/ create_master
    \/ create_aggregated
    \/ validate
    \/ export
    \/ run_again

----------------------------------------------------------------------------
(* The input files.  Every family of inputs varies some columns of some    *)
(* tables over a small set of values and keeps the rest at a baseline.     *)

Str(w) == <<(<<w>>)>>
Padded(l, w, r) == <<(l \o <<w>> \o r)>>
Num(n) == <<n>>
Date(d, m, y) == <<(<<d, m, y>>)>>
Cost(n) == <<[num |-> TRUE, n |-> n]>>
CostText == <<[num |-> FALSE, n |-> 0]>>

SalespersonCols == {"Sales Person", "Team", "Picture"}
ShipmentCols == {"Shipment ID", "Sales Person", "Geography", "Product", "Date",
                 "Delivered On", "Sales", "Status"}
CountryCols == {"Geography", "Region"}
ProductCols == {"Product", "Category", "Cost per Box"}

SalespersonRow(name, team, picture) ==
    [c \in SalespersonCols |->
        CASE c = "Sales Person" -> name [] c = "Team" -> team [] c = "Picture" -> picture]

CountryRow(geo, region) ==
    [c \in CountryCols |-> IF c = "Geography" THEN geo ELSE region]

ProductRow(product, category, cost) ==
    [c \in ProductCols |->
        CASE c = "Product" -> product [] c = "Category" -> category
          [] c = "Cost per Box" -> cost]

ShipmentRow(id, name, geo, product, date, delivered, sales, status) ==
    [c \in ShipmentCols |->
        CASE c = "Shipment ID" -> id [] c = "Sales Person" -> name
          [] c = "Geography" -> geo [] c = "Product" -> product
          [] c = "Date" -> date [] c = "Delivered On" -> delivered
          [] c = "Sales" -> sales [] c = "Status" -> status]

Table(cols, rows) == [cols |-> cols, rows |-> rows]

SeqsUpTo(S, lo, hi) == UNION {[1..n -> S] : n \in lo..hi}

BaseSalesperson == Table(SalespersonCols, <<SalespersonRow(Str("Ann"), Str("T1"), Str("a.png"))>>)
BaseCountry == Table(CountryCols, <<CountryRow(Str("India"), Str("Asia"))>>)
BaseProduct == Table(ProductCols, <<ProductRow(Str("Bar"), Str("Bars"), Cost(500))>>)
BaseShipmentRow ==
    ShipmentRow(Num(1), Str("Ann"), Str("India"), Str("Bar"), Date(1, 1, 2024),
                Date(11, 1, 2024), Num(10), Str("Completed"))

Files(sp, sh, co, pr) == [salesperson |-> sp, shipment |-> sh, country |-> co, product |-> pr]

(* a shipment table from a sequence of changes to the baseline row; the    *)
(* i-th row has the Shipment ID i unless the change sets it                *)
ShipmentTable(changes) ==
    Table(ShipmentCols,
          [i \in 1..Len(changes) |->
              [c \in ShipmentCols |->
                  IF c \in DOMAIN changes[i] THEN changes[i][c]
                  ELSE IF c = "Shipment ID" THEN Num(i) ELSE BaseShipmentRow[c]]])

(* ship and delivery dates: present, missing, no calendar date, and pairs  *)
(* 15 and 16 days apart, across a leap day, and delivered before shipped   *)
ShipDates == {Date(1, 1, 2024), Date(14, 2, 2024), NaN, Date(29, 2, 2023)}
DeliveredDates ==
    {NaN, Date(12, 25, 2024), Date(16, 1, 2024), Date(29, 2, 2024), Date(1, 3, 2024),
     Date(31, 12, 2023)}

DateChanges ==
    {[c \in {"Date", "Delivered On"} |-> IF c = "Date" THEN d ELSE dl] :
        d \in ShipDates, dl \in DeliveredDates}

(* in a table of several rows: a late delivery, a missing ship date, a     *)
(* ship date and a delivery date that are no calendar dates                *)
DateChangesFew ==
    {ch \in DateChanges :
        \/ ch["Date"] = Date(1, 1, 2024) /\ ch["Delivered On"] \in {Date(1, 3, 2024), Date(12, 25, 2024)}
        \/ ch["Date"] \in {NaN, Date(29, 2, 2023)} /\ ch["Delivered On"] = Date(16, 1, 2024)}

DateFiles ==
    {Files(BaseSalesperson, ShipmentTable(ch), BaseCountry, BaseProduct) :
        ch \in SeqsUpTo(DateChanges, 1, 1) \cup SeqsUpTo(DateChangesFew, 1, MaxShipRows)}

Statuses == {Str("Active"), Padded(<<" ">>, "Completed", <<" ">>), Str("Pending"), NaN}

StatusChanges ==
    {[c \in {"Status"} |-> st] : st \in Statuses}
    \cup {[c \in {"Status", "Shipment ID"} |-> IF c = "Status" THEN st ELSE NaN] :
            st \in Statuses}

StatusFiles ==
    {Files(BaseSalesperson, ShipmentTable(ch), BaseCountry, BaseProduct) :
        ch \in SeqsUpTo(StatusChanges, 1, MaxShipRows)}

(* dimension rows: a key as it is or padded, a key in two rows, a missing  *)
(* key, a missing attribute, a row of missing values only                  *)
SalespersonRows ==
    {SalespersonRow(Str("Ann"), Str("T1"), NaN),
     SalespersonRow(Padded(<<" ">>, "Ann", <<" ">>), Padded(<< >>, "T2", <<" ">>), Str("a.png")),
     SalespersonRow(Str("Bob"), NaN, NaN),
     SalespersonRow(NaN, Str("T3"), NaN),
     SalespersonRow(NaN, NaN, NaN)}

SalespersonKeys == {Padded(<<" ">>, "Ann", << >>), Str("Bob"), NaN}

SalespersonFiles ==
    {Files(Table(SalespersonCols, sp),
           ShipmentTable([i \in 1..Len(k) |-> [c \in {"Sales Person"} |-> k[i]]]),
           BaseCountry, BaseProduct) :
        sp \in SeqsUpTo(SalespersonRows, 0, MaxDimRows),
        k \in SeqsUpTo(SalespersonKeys, 1, MaxShipRows)}

CountryRows ==
    {CountryRow(Str("India"), Str("Asia")),
     CountryRow(Padded(<<" ">>, "India", << >>), Padded(<< >>, "APAC", <<" ">>)),
     CountryRow(Str("Peru"), NaN),
     CountryRow(NaN, Str("Nowhere"))}

CountryKeys == {Padded(<< >>, "India", <<" ">>), Str("Peru")}

CountryFiles ==
    {Files(BaseSalesperson,
           ShipmentTable([i \in 1..Len(k) |-> [c \in {"Geography"} |-> k[i]]]),
           Table(CountryCols, co), BaseProduct) :
        co \in SeqsUpTo(CountryRows, 0, MaxDimRows),
        k \in SeqsUpTo(CountryKeys, 1, MaxShipRows)}

ProductRows ==
    {ProductRow(Str("Bar"), Str("Bars"), Cost(500)),
     ProductRow(Padded(<<" ">>, "Bar", <<" ">>), Str("Bites"), CostText),
     ProductRow(Str("Bar"), NaN, NaN)}

ProductChanges ==
    {[c \in {"Product", "Sales"} |-> IF c = "Product" THEN k ELSE q] :
        k \in {Str("Bar"), Str("Nut")}, q \in {Num(10)}}
    \cup {[c \in {"Product", "Sales"} |-> IF c = "Product" THEN Str("Bar") ELSE NaN]}

ProductFiles ==
    {Files(BaseSalesperson, ShipmentTable(ch), BaseCountry, Table(ProductCols, pr)) :
        pr \in SeqsUpTo(ProductRows, 0, MaxDimRows),
        ch \in SeqsUpTo(ProductChanges, 1, MaxShipRows)}

(* every dimension table at once: the baseline, a key in two rows, no rows *)
Twice(tbl) == Table(tbl.cols, tbl.rows \o tbl.rows)

DimensionShapes(tbl) == {tbl, Twice(tbl), Table(tbl.cols, << >>)}

ShapeFiles ==
    {Files(sp, ShipmentTable(<<[c \in {} |-> NaN]>>), co, pr) :
        sp \in DimensionShapes(BaseSalesperson),
        co \in DimensionShapes(BaseCountry),
        pr \in DimensionShapes(BaseProduct)}

(* a file without one of its columns *)
DropColumn(tbl, col) ==
    Table(tbl.cols \ {col},
          [i \in 1..Len(tbl.rows) |-> [c \in tbl.cols \ {col} |-> tbl.rows[i][c]]])

BaseFiles == Files(BaseSalesperson, ShipmentTable(<<[c \in {} |-> NaN]>>), BaseCountry, BaseProduct)

ColumnFiles ==
    {[BaseFiles EXCEPT ![f] = DropColumn(BaseFiles[f], col)] :
        <<f, col>> \in UNION {{<<g, c>> : c \in BaseFiles[g].cols} : g \in DOMAIN BaseFiles}}

InputFiles ==
    DateFiles \cup StatusFiles \cup SalespersonFiles \cup CountryFiles
        \cup ProductFiles \cup ShapeFiles \cup ColumnFiles

Init ==
    /\ files \in InputFiles
    /\ self = init_self
    /\ heap = << >>
    /\ pc = "load"
    /\ err = [type |-> "", stage |-> ""]
    /\ master_df = None
    /\ aggregated_tables = << >>
    /\ report = << >>
    /\ exported = << >>
    /\ returned = << >>

Spec == Init /\ [][Next]_vars

----------------------------------------------------------------------------
(* Where the run is *)
AfterShipmentCleaner ==
    pc \in {"clean_country", "clean_product", "create_master", "create_aggregated",
            "validate", "export", "done"}
MasterMade == pc \in {"create_aggregated", "validate", "export", "done"}
Aggregated == pc \in {"validate", "export", "done"}
Validated == pc \in {"export", "done"}

RawShipment == heap[2]
CleanedShipment == heap[self.shipment_df]
CleanedProduct == heap[self.product_df]
Master == heap[master_df]

RECURSIVE SumCounts(_)
SumCounts(agg) ==
    IF agg = {} THEN 0
    ELSE LET g == CHOOSE x \in agg : TRUE
         IN  g["Shipment Count"] + SumCounts(agg \ {g})

Restrict(r, cols) == [c \in cols |-> r[c]]

(* the days from one date to another, counted a day at a time *)
NextDay(t) ==
    IF t[1] < DaysInMonth(t[2], t[3]) THEN <<t[1] + 1, t[2], t[3]>>
    ELSE IF t[2] < 12 THEN <<1, t[2] + 1, t[3]>> ELSE <<1, 1, t[3] + 1>>

Before(a, b) ==
    \/ a[3] < b[3]
    \/ a[3] = b[3] /\ a[2] < b[2]
    \/ a[3] = b[3] /\ a[2] = b[2] /\ a[1] < b[1]

RECURSIVE DaysUntil(_, _)
DaysUntil(a, b) == IF a = b THEN 0 ELSE 1 + DaysUntil(NextDay(a), b)

Elapsed(a, b) == IF Before(b, a) THEN 0 - DaysUntil(b, a) ELSE DaysUntil(a, b)

IsDate(c) == ~isnull(c) /\ Parses(c[1])

----------------------------------------------------------------------------
(* C1: the master table has as many rows as the cleaned shipment table and *)
(* its i-th row is the i-th shipment row with columns added, whatever the  *)
(* dimension tables hold.  It fails when a dimension key is in two rows.   *)
C1_JoinKeepsRowCount ==
    MasterMade =>
        /\ Len(Master.rows) = Len(CleanedShipment.rows)
        /\ \A i \in 1..Len(Master.rows) :
              i <= Len(CleanedShipment.rows)
                  => Restrict(Master.rows[i], CleanedShipment.cols) = CleanedShipment.rows[i]

(* C2: the Shipment Counts of the monthly aggregate add up to the number   *)
(* of master rows.  It fails when a ship date or a Shipment ID is missing. *)
C2_MonthlyCountsAllRows ==
    Aggregated => SumCounts(aggregated_tables[1].monthly) = Len(Master.rows)

CleanerField ==
    [clean_salesperson |-> "salesperson_df", clean_shipment |-> "shipment_df",
     clean_country |-> "country_df", clean_product |-> "product_df"]

RunsAgree ==
    \A i \in 1..Len(returned) : returned[i] = returned[1] /\ exported[i] = exported[1]

CleanerKeepsInput ==
    pc \in DOMAIN CleanerField
        => heap'[self[CleanerField[pc]]] = heap[self[CleanerField[pc]]]

(* C3: every run of the pipeline on the same files, on the same object or  *)
(* on a new one, returns and exports what the first run did, and a cleaner *)
(* leaves the table it reads as it was.                                    *)
C3_Idempotent == [](RunsAgree) /\ [][CleanerKeepsInput]_vars

C3_Witness ==
    /\ pc = "done"
    /\ Len(returned) = 2
    /\ heap[self.salesperson_df] # files.salesperson
    /\ heap[self.shipment_df] # files.shipment

(* C4: a ship date that is no dd/mm/yyyy date does not stop the pipeline.  *)
(* It does: clean_shipment_data raises ValueError.                         *)
C4_BadShipDateContinues ==
    (\E i \in 1..Len(files.shipment.rows) :
        "Date" \in files.shipment.cols
            /\ ~isnull(files.shipment.rows[i]["Date"])
            /\ ~Parses(files.shipment.rows[i]["Date"][1]))
        => pc # "aborted"

MissingColumn ==
    \/ ~(SalespersonCols \subseteq files.salesperson.cols)
    \/ ~(ShipmentCols \subseteq files.shipment.cols)
    \/ ~(CountryCols \subseteq files.country.cols)
    \/ ~(ProductCols \subseteq files.product.cols)

(* C5: a file without a required column is refused by load_data, with      *)
(* LoadError, before any later stage runs.  It is not: load_data returns.  *)
C5_MissingColumnFailsInLoad ==
    MissingColumn =>
        \/ pc = "load"
        \/ pc = "aborted" /\ err.stage = "load" /\ err.type = "LoadError"

(* C6: 'Delivery Time' is the number of days from the ship date to the     *)
(* delivered date, negative when delivered before shipped, and 0 when the  *)
(* delivered date is missing or no date.                                   *)
C6_DeliveryTime ==
    AfterShipmentCleaner =>
        \A i \in 1..Len(RawShipment.rows) :
            LET raw == RawShipment.rows[i]
                dt  == CleanedShipment.rows[i]["Delivery Time"]
            IN  /\ IsDate(raw["Date"]) /\ IsDate(raw["Delivered On"])
                      => dt = <<Elapsed(raw["Date"][1], raw["Delivered On"][1])>>
                /\ ~IsDate(raw["Delivered On"]) => dt = <<0>>

C6_Witness ==
    /\ AfterShipmentCleaner
    /\ \E i \in 1..Len(CleanedShipment.rows) :
          CleanedShipment.rows[i]["Delivery Time"][1] < 0

(* C7: 'Is Late' is true exactly when 'Delivery Time' is more than 15: 15  *)
(* days is not late, 16 days is, and an undelivered shipment is not.       *)
C7_IsLate ==
    AfterShipmentCleaner =>
        \A i \in 1..Len(RawShipment.rows) :
            LET raw == RawShipment.rows[i]
                r   == CleanedShipment.rows[i]
            IN  /\ r["Is Late"] = <<r["Delivery Time"][1] > 15>>
                /\ r["Delivery Time"] = <<15>> => r["Is Late"] = <<FALSE>>
                /\ r["Delivery Time"] = <<16>> => r["Is Late"] = <<TRUE>>
                /\ ~IsDate(raw["Delivered On"]) => r["Is Late"] = <<FALSE>>

C7_Witness ==
    /\ AfterShipmentCleaner
    /\ \E i \in 1..Len(CleanedShipment.rows) :
          /\ CleanedShipment.rows[i]["Delivery Time"] = <<15>>
          /\ CleanedShipment.rows[i]["Is Late"] = <<FALSE>>

(* C8: Revenue is Sales times the 'Cost per Box' of a product row with the *)
(* shipment's product, Profit is 0.30 of Revenue (10 boxes at 5.00 give    *)
(* 50.00 and 15.00), and both are missing when the cost is: no product row *)
(* matches, or the matched cost is missing or no number.                   *)
C8_RevenueAndProfit ==
    MasterMade =>
        \A i \in 1..Len(Master.rows) :
            LET r     == Master.rows[i]
                cost  == r["Cost per Box"]
                costs == {CleanedProduct.rows[j]["Cost per Box"] :
                            j \in {k \in 1..Len(CleanedProduct.rows) :
                                     CleanedProduct.rows[k]["Product"] = r["Product"]}}
            IN  /\ IF costs = {} THEN cost = NaN ELSE cost \in costs
                /\ cost = NaN => r["Revenue"] = NaN /\ r["Profit"] = NaN
                /\ cost # NaN /\ r["Sales"] # NaN
                      => /\ r["Revenue"] = <<r["Sales"][1] * cost[1]>>
                         /\ r["Profit"][1] = 30 * r["Revenue"][1]
                /\ r["Sales"] = <<10>> /\ cost = <<500>>
                      => r["Revenue"] = <<5000>> /\ r["Profit"] = <<150000>>

C8_Witness ==
    /\ MasterMade
    /\ \E i, j \in 1..Len(Master.rows) :
          /\ Master.rows[i]["Revenue"] = <<5000>>
          /\ Master.rows[i]["Profit"] = <<150000>>
          /\ Master.rows[j]["Cost per Box"] = NaN
          /\ Master.rows[j]["Revenue"] = NaN

RECURSIVE SumField(_, _)
SumField(S, f) ==
    IF S = {} THEN 0
    ELSE LET x == CHOOSE y \in S : TRUE IN x[f] + SumField(S \ {x}, f)

(* C9: the counts of the status distribution add up to the number of rows  *)
(* the percentages are taken of, so the percentages add up to 100% within  *)
(* rounding.  It fails when a row has no Status.                           *)
C9_StatusPercentagesAddUp ==
    Validated /\ report[1].total_records > 0 =>
        /\ SumField(report[1].status_dist, "count") = report[1].denominator
        /\ SumField(report[1].status_dist, "pct") - 10000 <= Cardinality(report[1].status_dist)
        /\ 10000 - SumField(report[1].status_dist, "pct") <= Cardinality(report[1].status_dist)

Counted(rows, keys) ==
    {i \in 1..Len(rows) :
        /\ \A k \in keys : ~isnull(rows[i][k])
        /\ ~isnull(rows[i]["Shipment ID"])}

GroupsCountPresentRows(agg, rows, keys) ==
    /\ SumCounts(agg) = Cardinality(Counted(rows, keys))
    /\ \A g \in agg :
          /\ \A k \in keys : ~isnull(g[k])
          /\ g["Shipment Count"] =
                Cardinality({i \in Counted(rows, keys) : \A k \in keys : rows[i][k] = g[k]})

(* C10: in the salesperson, geography and product aggregates a master row  *)
(* is counted in the group of its two grouping values when both are        *)
(* present and its Shipment ID is, and in no group otherwise; the counts   *)
(* add up to the number of such rows, which may be less than all rows.     *)
C10_DimensionAggregatesDropMissingKeys ==
    Aggregated =>
        /\ GroupsCountPresentRows(aggregated_tables[1].salesperson, Master.rows,
                                  {"Sales Person", "Team"})
        /\ GroupsCountPresentRows(aggregated_tables[1].geography, Master.rows,
                                  {"Geography", "Region"})
        /\ GroupsCountPresentRows(aggregated_tables[1].product, Master.rows,
                                  {"Product", "Category"})

C10_Witness ==
    /\ Aggregated
    /\ \E i \in 1..Len(Master.rows) :
          /\ ~isnull(Master.rows[i]["Sales Person"])
          /\ isnull(Master.rows[i]["Team"])
    /\ SumCounts(aggregated_tables[1].salesperson) < Len(Master.rows)
    /\ SumCounts(aggregated_tables[1].salesperson) > 0

====
